---- MODULE Spec2Model ----
(***************************************************************************)
(* pump-autoswitch: the main loop (MQTT messages -> StationState values)   *)
(* and the goroutine started by newPumpSwitcher (station map, ticker,      *)
(* pump switching, notifications), as one state machine.                   *)
(*                                                                         *)
(* One action is one pass through a select statement together with all     *)
(* the code that runs until the goroutine is back at its select (or has    *)
(* returned).  The blocking send `switcher <- ...` of the main loop is a   *)
(* suspension point of its own, so the main loop has two positions.        *)
(* Time is counted in seconds.                                             *)
(***************************************************************************)
EXTENDS Naturals, Sequences, FiniteSets

\* ------------------------------------------------------------ bounds
\* Number of StationState values the main loop forwards in one run.
MaxEvents == 3
\* The same, in the specification that records the messages of the main loop.
MaxInbound == 1
\* The same, in the specification that fills the channel.
MaxFull == 11

\* ------------------------------------------------- program constants
\* make(chan StationState, 10)
chanCap == 10
\* duration := 5 * time.Second
duration == 5

\* Topics are kept as their path segments, so that strings.HasPrefix can be
\* computed.  Two of the eight subscribed station topics, and the relay topic.
Stations == { <<"opensprinkler", "station", "0">>,
              <<"opensprinkler", "station", "1">> }
DebugTopic == <<"shellies", "pump", "relay", "0">>
Topics == Stations \cup {DebugTopic}

\* Message bodies the broker may deliver.
Payloads == { "{\"state\":1}", "{\"state\":0}", "{\"state\":2}", "{}", "garbage" }

FailedMessage == "Failed to switch pump!"

VARIABLES
    \* ---- program state
    stationStates,   \* map[string]bool: a function whose domain is the keys present
    states,          \* buffer of the channel `states`
    closed,          \* close(states) has run
    isPumpActive,
    ctxDone,         \* ctx.Done() is closed
    asynctimerchan,  \* the build's timer channels are buffered (Go < 1.23 semantics)
    tickerC,         \* a tick is waiting in ticker.C
    sinceReset,      \* seconds since the ticker's period last started
    mainPc,          \* "select", "send", "exited", "panic"
    pending,         \* the value the main loop is about to send, <<>> if none
    aggPc,           \* "select", "returned"
    \* ---- what the last step did (empty after a step of another kind)
    trigger,         \* "none", "event", "timer", "shutdown"
    p,               \* <<>>, or <<d>> when the step reached the recompute with p = d
    actCalls,        \* switchPump calls of the step: [active, ok]
    notes,           \* notify calls of the step: [message, ok]
    msg,             \* the message the main loop received in the step, where recorded
    \* ---- history
    sent,            \* number of values forwarded so far
    latest,          \* per station, the last value forwarded by the main loop
    sinceEvent,      \* seconds since the goroutine last took a value, capped at duration
    lastFail,        \* p of the switchPump calls of recomputes that failed in a row (at most two kept)
    lastApplied,     \* <<d>>: the OR over the map at the last recompute whose switchPump succeeded
    shutdownCalls,   \* switchPump calls made by the ctx.Done() branch
    lastCmd,         \* <<c>>: the most recent switchPump call, [active, ok]
    consumed         \* number of values the goroutine has taken from the channel

vars == << stationStates, states, closed, isPumpActive, ctxDone, asynctimerchan,
           tickerC, sinceReset, mainPc, pending, aggPc, trigger, p, actCalls,
           notes, msg, sent, latest, sinceEvent, lastFail, lastApplied,
           shutdownCalls, lastCmd, consumed >>

\* --------------------------------------------------------- functions

\* strings.HasPrefix(msg.Topic(), "opensprinkler/station")
HasStationPrefix(topic) ==
    /\ Len(topic) >= 2
    /\ SubSeq(topic, 1, 2) = <<"opensprinkler", "station">>

DecodeIgnoringError(payload) ==
    CASE payload = "{\"state\":1}" -> [err |-> FALSE, State |-> 1]
      [] payload = "{\"state\":2}" -> [err |-> FALSE, State |-> 2]
      [] OTHER                     -> [err |-> FALSE, State |-> 0]

\* json.NewDecoder(...).Decode(&payload) into struct{ State int `json:"state"` }
Decode(payload) ==
    CASE payload = "{\"state\":1}" -> [err |-> FALSE, State |-> 1]
      [] payload = "{\"state\":0}" -> [err |-> FALSE, State |-> 0]
      [] payload = "{\"state\":2}" -> [err |-> FALSE, State |-> 2]
      [] payload = "{}"            -> [err |-> FALSE, State |-> 0]
      [] OTHER                     -> [err |-> TRUE,  State |-> 0]

\* StationState{msg.Topic(), payload.State == 1}
StationState(topic, payload) ==
    [station |-> topic, state |-> (Decode(payload).State = 1)]

MapStoreKeepFirst(m, k, v) ==
    [s \in DOMAIN m \cup {k} |-> IF s \in DOMAIN m THEN m[s] ELSE v]

MapStoreFresh(m, k, v) == [s \in {k} |-> v]

\* stationStates[state.station] = state.state
MapStore(m, k, v) ==
    [s \in DOMAIN m \cup {k} |-> IF s = k THEN v ELSE m[s]]

OrReduceAnd(m) == \A s \in DOMAIN m : m[s]

\* p := false; for _, s := range stationStates { p = p || s }
OrReduce(m) == \E s \in DOMAIN m : m[s]

MessageSwapped(d) == IF d THEN "Pump turned off" ELSE "Pump turned on"

\* message := "Pump turned off"; if p { message = "Pump turned on" }
Message(d) == IF d THEN "Pump turned on" ELSE "Pump turned off"

Min(a, b) == IF a <= b THEN a ELSE b

\* The process runs until main returns or panics.
alive == mainPc \in {"select", "send"}

\* -------------------------------------------------------------- init

Init ==
    /\ stationStates = << >>
    /\ states = << >>
    /\ closed = FALSE
    /\ isPumpActive = FALSE
    /\ ctxDone = FALSE
    /\ asynctimerchan \in BOOLEAN
    /\ tickerC = FALSE
    /\ sinceReset = 0
    /\ mainPc = "select"
    /\ pending = << >>
    /\ aggPc = "select"
    /\ trigger = "none"
    /\ p = << >>
    /\ actCalls = << >>
    /\ notes = << >>
    /\ sent = 0
    /\ latest = << >>
    /\ sinceEvent = duration
    /\ lastFail = << >>
    /\ lastApplied = << >>
    /\ shutdownCalls = << >>
    /\ lastCmd = << >>
    /\ consumed = 0
    /\ msg = << >>

\* A step that is not a step of the goroutine.
NoAggStep ==
    /\ trigger' = "none"
    /\ p' = << >>
    /\ actCalls' = << >>
    /\ notes' = << >>

\* ------------------------------------------------------------- clock

\* One second passes.  When the period is over the ticker puts a tick into
\* ticker.C unless one is waiting there already, and starts the next period.
Tock ==
    /\ alive
    /\ sinceReset' = (sinceReset + 1) % duration
    /\ tickerC' = (tickerC \/ sinceReset + 1 = duration)
    /\ sinceEvent' = Min(duration, sinceEvent + 1)
    /\ NoAggStep
    /\ msg' = << >>
    /\ UNCHANGED << stationStates, states, closed, isPumpActive, ctxDone,
                    asynctimerchan, mainPc, pending, aggPc, sent, latest,
                    lastFail, lastApplied, shutdownCalls, lastCmd, consumed >>

\* os.Interrupt arrives: signal.NotifyContext cancels ctx.
Signal ==
    /\ alive
    /\ ~ctxDone
    /\ ctxDone' = TRUE
    /\ NoAggStep
    /\ msg' = << >>
    /\ UNCHANGED << stationStates, states, closed, isPumpActive, asynctimerchan,
                    tickerC, sinceReset, mainPc, pending, aggPc, sent, latest,
                    sinceEvent, lastFail, lastApplied, shutdownCalls, lastCmd,
                    consumed >>

\* --------------------------------------------------------- main loop

\* case msg := <-messages, up to the send on switcher.  At most `most` values
\* are forwarded in a run; `record` says whether the step's message is kept in
\* the history variable msg.
MainRecvUpTo(topic, payload, most, record) ==
    /\ mainPc = "select"
    /\ msg' = IF record THEN << [topic |-> topic, payload |-> payload] >> ELSE << >>
    /\ IF HasStationPrefix(topic) /\ ~Decode(payload).err
       THEN /\ sent < most
            /\ mainPc' = "send"
            /\ pending' = << StationState(topic, payload) >>
       ELSE /\ mainPc' = "select"
            /\ pending' = << >>
    /\ NoAggStep
    /\ UNCHANGED << stationStates, states, closed, isPumpActive, ctxDone,
                    asynctimerchan, tickerC, sinceReset, aggPc, sent, latest,
                    sinceEvent, lastFail, lastApplied, shutdownCalls, lastCmd,
                    consumed >>

MainRecv(topic, payload) == MainRecvUpTo(topic, payload, MaxEvents, FALSE)

MainSendDropping ==
    /\ mainPc = "send"
    /\ IF closed
       THEN /\ mainPc' = "panic"
            /\ UNCHANGED << states, sent, latest, pending >>
       ELSE /\ states' = IF Len(states) < chanCap THEN Append(states, pending[1])
                                                  ELSE states
            /\ sent' = sent + 1
            /\ latest' = [s \in DOMAIN latest \cup {pending[1].station} |->
                              IF s = pending[1].station THEN pending[1].state
                                                        ELSE latest[s]]
            /\ pending' = << >>
            /\ mainPc' = "select"
    /\ NoAggStep
    /\ msg' = << >>
    /\ UNCHANGED << stationStates, closed, isPumpActive, ctxDone, asynctimerchan,
                    tickerC, sinceReset, aggPc, sinceEvent, lastFail, lastApplied,
                    shutdownCalls, lastCmd, consumed >>

\* switcher <- StationState{...}; msg.Ack().  A send on a closed channel panics;
\* a send on a full channel blocks.
MainSend ==
    /\ mainPc = "send"
    /\ IF closed
       THEN /\ mainPc' = "panic"
            /\ UNCHANGED << states, sent, latest, pending >>
       ELSE /\ Len(states) < chanCap
            /\ states' = Append(states, pending[1])
            /\ sent' = sent + 1
            /\ latest' = [s \in DOMAIN latest \cup {pending[1].station} |->
                              IF s = pending[1].station THEN pending[1].state
                                                        ELSE latest[s]]
            /\ pending' = << >>
            /\ mainPc' = "select"
    /\ NoAggStep
    /\ msg' = << >>
    /\ UNCHANGED << stationStates, closed, isPumpActive, ctxDone, asynctimerchan,
                    tickerC, sinceReset, aggPc, sinceEvent, lastFail, lastApplied,
                    shutdownCalls, lastCmd, consumed >>

\* case <-ctx.Done(): break loop; main returns and the process ends.
MainDone ==
    /\ mainPc = "select"
    /\ ctxDone
    /\ mainPc' = "exited"
    /\ NoAggStep
    /\ msg' = << >>
    /\ UNCHANGED << stationStates, states, closed, isPumpActive, ctxDone,
                    asynctimerchan, tickerC, sinceReset, pending, aggPc, sent,
                    latest, sinceEvent, lastFail, lastApplied, shutdownCalls,
                    consumed, lastCmd >>

\* --------------------------------------------------------- goroutine

NeedsSwitchAlways(d) == TRUE

NeedsSwitchWhenOn(d) == d \/ d # isPumpActive

\* if p == isPumpActive { continue }
NeedsSwitch(d) == d # isPumpActive

NotesOnFailureBoth(d, nok) ==
    << [message |-> FailedMessage, ok |-> nok], [message |-> Message(d), ok |-> nok] >>

\* if err != nil { notify("Failed to switch pump!"); continue }
NotesOnFailure(d, nok) == << [message |-> FailedMessage, ok |-> nok] >>

PumpAfterFailureSet(d) == d

\* ... continue: isPumpActive is not assigned when switchPump failed
PumpAfterFailure(d) == isPumpActive

NotesOnSuccessRetry(d, nok) ==
    IF nok THEN << [message |-> Message(d), ok |-> TRUE] >>
           ELSE << [message |-> Message(d), ok |-> FALSE],
                   [message |-> Message(d), ok |-> TRUE] >>

\* notify(message)
NotesOnSuccess(d, nok) == << [message |-> Message(d), ok |-> nok] >>

PumpAfterSuccessKept(d) == isPumpActive

\* isPumpActive = p
PumpAfterSuccess(d) == d

PcAfterCallsReturn(ok, nok) == IF ok /\ nok THEN "select" ELSE "returned"

\* `continue` after a failed switchPump, and the result of notify is dropped:
\* whatever the two calls returned, the loop goes on.
PcAfterCalls(ok, nok) == "select"

\* The recompute (p := false ... isPumpActive = p) over the map m: ok is the
\* outcome of switchPump, nok the outcome of notify.
Recompute(m, ok, nok) ==
    LET d == OrReduce(m) IN
    /\ p' = << d >>
    /\ IF ~NeedsSwitch(d)
       THEN /\ actCalls' = << >>
            /\ notes' = << >>
            /\ UNCHANGED << isPumpActive, lastFail, lastApplied, lastCmd, aggPc >>
       ELSE /\ actCalls' = << [active |-> d, ok |-> ok] >>
            /\ lastCmd' = << [active |-> d, ok |-> ok] >>
            /\ aggPc' = PcAfterCalls(ok, nok)
            /\ IF ~ok
               THEN /\ notes' = NotesOnFailure(d, nok)
                    /\ isPumpActive' = PumpAfterFailure(d)
                    /\ lastFail' = IF Len(lastFail) < 2 THEN Append(lastFail, d)
                                                        ELSE lastFail
                    /\ UNCHANGED lastApplied
               ELSE /\ notes' = NotesOnSuccess(d, nok)
                    /\ isPumpActive' = PumpAfterSuccess(d)
                    /\ lastFail' = << >>
                    /\ lastApplied' = << \E s \in DOMAIN m : m[s] >>

SkipRecomputeInverted(state) == state.state

SkipRecomputeNever(state) == FALSE

\* The branch `if !state.state { continue }`.
SkipRecompute(state) == ~state.state

\* ticker.Reset(duration): the next tick comes one period from now.  A tick that
\* is already waiting stays in a buffered timer channel and is discarded otherwise.
TickerAfterReset == IF asynctimerchan THEN tickerC ELSE FALSE

\* case state := <-states
AggEvent(ok, nok) ==
    /\ alive
    /\ aggPc = "select"
    /\ states # << >>
    /\ LET state == Head(states)
           m == MapStore(stationStates, state.station, state.state)
       IN  /\ states' = Tail(states)
           /\ stationStates' = m
           /\ sinceReset' = 0
           /\ tickerC' = TickerAfterReset
           /\ sinceEvent' = 0
           /\ consumed' = consumed + 1
           /\ trigger' = "event"
           /\ IF SkipRecompute(state)
              THEN /\ p' = << >>
                   /\ actCalls' = << >>
                   /\ notes' = << >>
                   /\ UNCHANGED << isPumpActive, lastFail, lastApplied, lastCmd,
                                   aggPc >>
              ELSE Recompute(m, ok, nok)
    /\ msg' = << >>
    /\ UNCHANGED << closed, ctxDone, asynctimerchan, mainPc, pending, sent,
                    latest, shutdownCalls >>

\* case <-ticker.C
AggTick(ok, nok) ==
    /\ alive
    /\ aggPc = "select"
    /\ tickerC
    /\ tickerC' = FALSE
    /\ trigger' = "timer"
    /\ Recompute(stationStates, ok, nok)
    /\ msg' = << >>
    /\ UNCHANGED << stationStates, states, closed, ctxDone, asynctimerchan,
                    sinceReset, mainPc, pending, sent, latest, sinceEvent,
                    shutdownCalls, consumed >>

\* case <-ctx.Done(): switchPump(client, false); close(states); return
AggDone(ok) ==
    /\ alive
    /\ aggPc = "select"
    /\ ctxDone
    /\ trigger' = "shutdown"
    /\ p' = << >>
    /\ actCalls' = << [active |-> FALSE, ok |-> ok] >>
    /\ notes' = << >>
    /\ shutdownCalls' = Append(shutdownCalls, [active |-> FALSE, ok |-> ok])
    /\ lastCmd' = << [active |-> FALSE, ok |-> ok] >>
    /\ closed' = TRUE
    /\ aggPc' = "returned"
    /\ msg' = << >>
    /\ UNCHANGED << stationStates, states, isPumpActive, ctxDone, asynctimerchan,
                    tickerC, sinceReset, mainPc, pending, sent, latest, sinceEvent,
                    lastFail, lastApplied, consumed >>

\* -------------------------------------------------------------- spec

Next ==
    \/ Tock
    \/ Signal
    \/ \E topic \in Topics, payload \in Payloads : MainRecv(topic, payload)
    \/ MainSend
    \/ MainDone
    \/ \E ok \in BOOLEAN, nok \in BOOLEAN : AggEvent(ok, nok)
    \/ \E ok \in BOOLEAN, nok \in BOOLEAN : AggTick(ok, nok)
    \/ \E ok \in BOOLEAN : AggDone(ok)

Spec == Init /\ [][Next]_vars

\* The same program, with the message of every step of the main loop recorded.
NextInbound ==
    \/ Tock
    \/ Signal
    \/ \E topic \in Topics, payload \in Payloads :
          MainRecvUpTo(topic, payload, MaxInbound, TRUE)
    \/ MainSend
    \/ MainDone
    \/ \E ok \in BOOLEAN, nok \in BOOLEAN : AggEvent(ok, nok)
    \/ \E ok \in BOOLEAN, nok \in BOOLEAN : AggTick(ok, nok)
    \/ \E ok \in BOOLEAN : AggDone(ok)

SpecInbound == Init /\ [][NextInbound]_vars

\* The program while no signal arrives, with a broker that delivers more
\* messages for one station than the channel holds, alternately on and off.
\* The goroutine is scheduled: a value waiting in the channel is taken
\* eventually.
BurstStation == <<"opensprinkler", "station", "0">>
BurstPayload == IF sent % 2 = 0 THEN "{\"state\":1}" ELSE "{\"state\":0}"

NextFull ==
    \/ Tock
    \/ MainRecvUpTo(BurstStation, BurstPayload, MaxFull, FALSE)
    \/ MainSend
    \/ \E ok \in BOOLEAN, nok \in BOOLEAN : AggEvent(ok, nok)
    \/ \E ok \in BOOLEAN, nok \in BOOLEAN : AggTick(ok, nok)

SpecFull ==
    /\ Init
    /\ [][NextFull]_vars
    /\ WF_vars(\E ok \in BOOLEAN, nok \in BOOLEAN : AggEvent(ok, nok))

\* ------------------------------------------------------------ claims

\* C1: after quiescence (every forwarded value has been consumed and no value
\* was taken for at least `duration`), once the timer fire has been handled with
\* no failing switchPump, isPumpActive is the OR over the last value forwarded
\* for each station.
C1_QuiescentPumpIsOrOfLatest ==
    ( /\ trigger = "timer"
      /\ sinceEvent = duration
      /\ states = << >>
      /\ \A i \in 1..Len(actCalls) : actCalls[i].ok )
    => isPumpActive = (\E s \in DOMAIN latest : latest[s])

\* The timer turned the pump off after the stations had settled inactive.
C1_Witness ==
    /\ trigger = "timer"
    /\ sinceEvent = duration
    /\ states = << >>
    /\ DOMAIN latest = Stations
    /\ actCalls = << [active |-> FALSE, ok |-> TRUE] >>
    /\ ~isPumpActive

\* C2: a recompute whose p equals isPumpActive calls neither switchPump nor
\* notify and leaves isPumpActive as it was, for both triggers.
C2_EqualRecomputeIsNoOp ==
    [][ (p' # << >> /\ p'[1] = isPumpActive)
        => (actCalls' = << >> /\ notes' = << >> /\ isPumpActive' = isPumpActive) ]_vars

\* A value with state = true arrived while the pump was tracked as on.
C2_Witness ==
    /\ trigger = "event"
    /\ p = << TRUE >>
    /\ isPumpActive
    /\ actCalls = << >>
    /\ notes = << >>

\* C3: when the process has ended, the ctx.Done() branch of the goroutine has
\* called switchPump(false) exactly once.
C3_PumpOffOnceBeforeExit ==
    ~alive => (Len(shutdownCalls) = 1 /\ ~shutdownCalls[1].active)

\* C4: a failed switchPump leaves isPumpActive as it was, and the next
\* recompute with the same p calls switchPump with that p again.
C4_FailureKeepsStateAndRetries ==
    [][ /\ (trigger' \in {"event", "timer"} /\ actCalls' # << >> /\ ~actCalls'[1].ok)
           => (isPumpActive' = isPumpActive /\ lastFail' # << >> /\ lastFail'[1] = p'[1])
        /\ (lastFail # << >> /\ p' = << lastFail[1] >>)
           => (Len(actCalls') = 1 /\ actCalls'[1].active = lastFail[1]) ]_vars

\* switchPump(true) failed, was tried again by the timer and failed again.
C4_Witness ==
    /\ trigger = "timer"
    /\ lastFail = << TRUE, TRUE >>
    /\ actCalls = << [active |-> TRUE, ok |-> FALSE] >>
    /\ ~isPumpActive

\* C5: the goroutine handles a tick only when at least `duration` has passed
\* since it last took a value from the channel.
C5_TickOnlyAfterQuietPeriod ==
    [][ trigger' = "timer" => sinceEvent = duration ]_vars

\* C6: a value with state = true is followed by the recompute in the same
\* iteration, whatever the time since the last value, and with the pump tracked
\* as off switchPump(true) is called in that iteration.
C6_ActiveEventRecomputesAtOnce ==
    [][ (trigger' = "event" /\ states # << >> /\ Head(states).state)
        => /\ p' = << TRUE >>
           /\ ~isPumpActive => (Len(actCalls') = 1 /\ actCalls'[1].active) ]_vars

\* A value with state = true found the pump off and switched it on at once,
\* while another value was still waiting in the channel.
C6_Witness ==
    /\ trigger = "event"
    /\ p = << TRUE >>
    /\ actCalls = << [active |-> TRUE, ok |-> TRUE] >>
    /\ lastFail = << >>
    /\ lastApplied = << TRUE >>
    /\ Len(states) = 1
    /\ isPumpActive

\* C7: a recompute with p # isPumpActive calls switchPump once, with p; when
\* that call succeeds notify is called once, with "Pump turned on" for p = true
\* and "Pump turned off" for p = false, and isPumpActive becomes p.
C7_SuccessfulTransitionEffects ==
    [][ (p' # << >> /\ p'[1] # isPumpActive)
        => /\ Len(actCalls') = 1
           /\ actCalls'[1].active = p'[1]
           /\ actCalls'[1].ok
              => /\ Len(notes') = 1
                 /\ notes'[1].message = (IF p'[1] THEN "Pump turned on"
                                                  ELSE "Pump turned off")
                 /\ isPumpActive' = p'[1] ]_vars

\* The pump was switched off and "Pump turned off" was sent.
C7_Witness ==
    /\ trigger = "timer"
    /\ p = << FALSE >>
    /\ actCalls = << [active |-> FALSE, ok |-> TRUE] >>
    /\ Len(notes) = 1
    /\ notes[1].message = "Pump turned off"
    /\ ~isPumpActive

\* C8 as stated: every switchPump call that fails is answered by exactly one
\* notify call, carrying the failure message.
C8_EveryFailureNotifies ==
    [][ (actCalls' # << >> /\ ~actCalls'[1].ok)
        => (Len(notes') = 1 /\ notes'[1].message = "Failed to switch pump!") ]_vars

\* C8 as amended: every switchPump call of a recompute that fails is answered
\* by exactly one notify call, carrying the failure message; the switchPump
\* call of the ctx.Done() branch is answered by no notify call.
C8_RecomputeFailureNotifies ==
    [][ /\ (trigger' \in {"event", "timer"} /\ actCalls' # << >> /\ ~actCalls'[1].ok)
           => (Len(notes') = 1 /\ notes'[1].message = "Failed to switch pump!")
        /\ trigger' = "shutdown" => notes' = << >> ]_vars

\* switchPump(true) failed in a recompute and the failure message was sent.
C8_Witness ==
    /\ trigger = "event"
    /\ actCalls = << [active |-> TRUE, ok |-> FALSE] >>
    /\ Len(notes) = 1
    /\ notes[1].message = "Failed to switch pump!"

\* C9: isPumpActive is the OR over the map as it was at the last recompute
\* whose switchPump succeeded, and false before the first one; a step without
\* a successful switchPump of a recompute does not change it.
C9_PumpIsLastAppliedOr ==
    /\ [](isPumpActive = (lastApplied # << >> /\ lastApplied[1]))
    /\ [][ ~(trigger' \in {"event", "timer"} /\ actCalls' # << >> /\ actCalls'[1].ok)
           => isPumpActive' = isPumpActive ]_vars

\* The pump is tracked as on, the map has since become all false, and the
\* recompute that had to switch it off failed (its notify call failed too).
C9_Witness ==
    /\ isPumpActive
    /\ lastApplied = << TRUE >>
    /\ stationStates # << >>
    /\ \A s \in DOMAIN stationStates : ~stationStates[s]
    /\ trigger = "timer"
    /\ actCalls = << [active |-> FALSE, ok |-> FALSE] >>
    /\ ~notes[1].ok

\* C10: once ctx is cancelled the goroutine's next step is the ctx.Done()
\* branch: it takes no further value or tick.
C10_AfterSignalOnlyShutdown ==
    [][ (ctxDone /\ trigger' # "none") => trigger' = "shutdown" ]_vars


\* C11: the process never ends by a panic: the main loop never sends on the
\* channel after the goroutine has closed it.
C11_NoSendOnClosedChannel ==
    mainPc # "panic"

\* The map m after the values of the queue q have been written to it in order.
RECURSIVE C12_Applied(_, _)
C12_Applied(m, q) ==
    IF q = << >> THEN m
    ELSE C12_Applied([s \in DOMAIN m \cup {Head(q).station} |->
                         IF s = Head(q).station THEN Head(q).state ELSE m[s]],
                     Tail(q))

\* C12: values are written to the map in the order the main loop forwarded
\* them (the map, with the values still waiting written to it in channel
\* order, holds the last value forwarded per station; so does the map itself
\* once the channel is empty), and the step that writes a value also takes
\* that value's recompute-or-skip decision, while a tick never writes the map.
C12_AppliedInForwardingOrder ==
    /\ [](C12_Applied(stationStates, states) = latest)
    /\ [](states = << >> => stationStates = latest)
    /\ [][ /\ trigger' = "event"
              => /\ stationStates'[Head(states).station] = Head(states).state
                 /\ (p' = << >>) = ~Head(states).state
           /\ trigger' = "timer" => stationStates' = stationStates ]_vars

\* Both stations were written, one of them twice, and the channel is empty.
C12_Witness ==
    /\ trigger = "event"
    /\ states = << >>
    /\ consumed >= 3
    /\ DOMAIN stationStates = Stations
    /\ stationStates = latest
    /\ \E s \in Stations : stationStates[s]
    /\ \E s \in Stations : ~stationStates[s]

\* C13: the goroutine leaves its loop only through the ctx.Done() branch; a
\* step that took a value or a tick leaves it at its select, whatever
\* switchPump and notify returned.
C13_OnlyShutdownEndsLoop ==
    [][ /\ (aggPc = "select" /\ aggPc' # "select") => (ctxDone /\ trigger' = "shutdown")
        /\ trigger' \in {"event", "timer"} => aggPc' = "select" ]_vars

\* switchPump and notify both failed, the goroutine is back at its select
\* and a value and a tick are waiting for it.
C13_Witness ==
    /\ trigger = "event"
    /\ actCalls # << >> /\ ~actCalls[1].ok
    /\ notes # << >> /\ ~notes[1].ok
    /\ aggPc = "select"
    /\ states # << >>
    /\ tickerC

\* C14: when notify fails on the state-change message after a successful
\* switchPump, isPumpActive is still set to p, the map holds what it held
\* before the step plus the value of the step, notify was called once, and a
\* tick handled right after calls neither switchPump nor notify.
C14_NotifyFailureHasNoEffect ==
    [][ /\ ( /\ trigger' \in {"event", "timer"}
             /\ actCalls' # << >> /\ actCalls'[1].ok
             /\ notes' # << >> /\ ~notes'[1].ok )
           => /\ isPumpActive' = p'[1]
              /\ Len(notes') = 1
              /\ trigger' = "timer" => stationStates' = stationStates
              /\ trigger' = "event"
                 => stationStates' = [s \in DOMAIN stationStates \cup {Head(states).station} |->
                                         IF s = Head(states).station
                                         THEN Head(states).state ELSE stationStates[s]]
        /\ ( /\ trigger \in {"event", "timer"}
             /\ actCalls # << >> /\ actCalls[1].ok
             /\ notes # << >> /\ ~notes[1].ok
             /\ trigger' = "timer" )
           => (actCalls' = << >> /\ notes' = << >>) ]_vars

\* "Pump turned off" could not be delivered; the pump is tracked as off.
C14_Witness ==
    /\ trigger = "timer"
    /\ actCalls = << [active |-> FALSE, ok |-> TRUE] >>
    /\ notes = << [message |-> "Pump turned off", ok |-> FALSE] >>
    /\ ~isPumpActive
    /\ lastApplied = << FALSE >>

\* C15: a station message whose body cannot be decoded yields no value: the
\* main loop is back at its select with nothing to send, and the channel, the
\* map, isPumpActive and the ticker are as they were.
C15_UndecodableMessageIsSkipped ==
    [][ (msg' # << >> /\ msg'[1].topic \in Stations /\ msg'[1].payload = "garbage")
        => /\ mainPc' = "select"
           /\ pending' = << >>
           /\ UNCHANGED << states, sent, stationStates, isPumpActive, tickerC,
                           sinceReset, sinceEvent >> ]_vars

\* An undecodable body arrived for a station while the pump is on and a tick
\* is due in a second.
C15_Witness ==
    /\ msg = << [topic |-> <<"opensprinkler", "station", "1">>, payload |-> "garbage"] >>
    /\ mainPc = "select"
    /\ isPumpActive
    /\ stationStates # << >>
    /\ sinceReset = 4

\* C16: a step that took a value never calls switchPump(false): if it reaches
\* the recompute, p is true.
C16_EventNeverSwitchesOff ==
    [][ trigger' = "event"
        => /\ p' \in { << >>, << TRUE >> }
           /\ \A i \in 1..Len(actCalls') : actCalls'[i].active ]_vars

\* A value with state = false made every station inactive while the pump is
\* tracked as on, and nothing was switched.
C16_Witness ==
    /\ trigger = "event"
    /\ isPumpActive
    /\ DOMAIN stationStates = Stations
    /\ \A s \in Stations : ~stationStates[s]
    /\ p = << >>
    /\ actCalls = << >>

\* The goroutine has handled a tick after a quiet period, the channel is empty
\* and every station of the map is inactive.
C17_SettledInactive ==
    /\ trigger = "timer"
    /\ sinceEvent = duration
    /\ states = << >>
    /\ stationStates # << >>
    /\ \A s \in DOMAIN stationStates : ~stationStates[s]

\* C17 as stated: with all stations settled inactive, the most recent
\* switchPump call, if there was one, was switchPump(false).
C17_LastCommandIsOff ==
    (C17_SettledInactive /\ lastCmd # << >>) => ~lastCmd[1].active

\* C17 as amended: with all stations settled inactive, the most recent
\* switchPump call, if there was one, was switchPump(false) or a
\* switchPump(true) that failed; and a failed switchPump(true) leaves the pump
\* tracked as off.
C17_LastCommandIsOffOrFailedOn ==
    (C17_SettledInactive /\ lastCmd # << >>)
    => \/ ~lastCmd[1].active
       \/ (lastCmd[1].active /\ ~lastCmd[1].ok /\ ~isPumpActive)

\* The tick switched the pump off although that call failed: the last call is
\* switchPump(false).
C17_Witness ==
    /\ C17_SettledInactive
    /\ actCalls = << [active |-> FALSE, ok |-> FALSE] >>
    /\ lastCmd = << [active |-> FALSE, ok |-> FALSE] >>
    /\ isPumpActive

\* C18: the switchPump calls of recomputes that succeed alternate, the first
\* being switchPump(true), and so do the state-change messages handed to
\* notify (delivered or not): each successful call carries the opposite of
\* the OR applied by the successful call before it.
C18_TransitionsAlternate ==
    [][ (trigger' \in {"event", "timer"} /\ actCalls' # << >> /\ actCalls'[1].ok)
        => LET on == (lastApplied = << >> \/ ~lastApplied[1]) IN
           /\ actCalls'[1].active = on
           /\ Len(notes') = 1
           /\ notes'[1].message = (IF on THEN "Pump turned on" ELSE "Pump turned off") ]_vars

\* The pump, switched on by an earlier step, was switched off: "Pump turned off"
\* followed "Pump turned on".
C18_Witness ==
    /\ trigger = "timer"
    /\ consumed >= 2
    /\ actCalls = << [active |-> FALSE, ok |-> TRUE] >>
    /\ notes = << [message |-> "Pump turned off", ok |-> TRUE] >>
    /\ lastApplied = << FALSE >>
    /\ lastCmd = << [active |-> FALSE, ok |-> TRUE] >>

\* C19: no step removes a key of the map; a step that takes a value for a
\* station writes that station's entry and leaves the other entries as they
\* were; no other step changes the map.
C19_OnlyTheEventsEntryIsWritten ==
    [][ /\ DOMAIN stationStates \subseteq DOMAIN stationStates'
        /\ trigger' = "event"
           => /\ DOMAIN stationStates' = DOMAIN stationStates \cup {Head(states).station}
              /\ stationStates'[Head(states).station] = Head(states).state
              /\ \A s \in DOMAIN stationStates :
                    s # Head(states).station => stationStates'[s] = stationStates[s]
        /\ trigger' # "event" => stationStates' = stationStates ]_vars

\* A station reported active earlier is still active after a tick and after a
\* value for the other station.
C19_Witness ==
    /\ trigger = "event"
    /\ consumed >= 2
    /\ DOMAIN stationStates = Stations
    /\ \E s \in Stations : stationStates[s]
    /\ \E s \in Stations : ~stationStates[s]
    /\ lastCmd # << >> /\ ~lastCmd[1].ok


\* C20: the channel never holds more than 10 values; while it holds 10 the
\* main loop keeps its value and waits; every value forwarded is in the
\* channel or has been taken, once; and with no signal every value forwarded
\* is taken eventually.
C20_BoundedBlockingChannel ==
    /\ [](Len(states) <= 10)
    /\ [](consumed + Len(states) = sent)
    /\ [](C12_Applied(stationStates, states) = latest)
    /\ [][ (mainPc = "send" /\ Len(states) = 10)
           => /\ mainPc' = "send"
              /\ pending' = pending
              /\ sent' = sent
              /\ states' \in {states, Tail(states)} ]_vars
    /\ \A n \in 1..MaxFull : (sent >= n) ~> (consumed >= n)

\* The channel is full and the main loop waits with the eleventh value.
C20_Witness ==
    /\ Len(states) = 10
    /\ mainPc = "send"
    /\ pending # << >>
    /\ sent = 10
    /\ consumed = 0


====
